---- MODULE Spec2Model ----
(***************************************************************************)
(* A model of apache_beam/io/gcp/gcsio.py: the write session (GcsUploader), *)
(* the read session (GcsDownloader), and the delete / delete_batch / copy / *)
(* copy_batch operations of GcsIO.  Each component has its own              *)
(* specification (SpecUpload, SpecDownload, SpecDelete, SpecDeleteBatch,    *)
(* SpecCopy, SpecCopyBatch); SpecCopyAndCopyBatch, SpecBatch and            *)
(* SpecDeleteAndCopyFair put two of them side by side, SpecRename runs      *)
(* copy and then delete as rename does, and SpecUploadFair,                 *)
(* SpecCopyBatchFair and SpecDeleteAndCopyFair add the fairness of the      *)
(* thread and of the remote's answers.  The variables of the components a   *)
(* specification does not run stay at their "off" values.                   *)
(***************************************************************************)
EXTENDS Integers, Sequences, FiniteSets, TLC

(***************************************************************************)
(* Bounds of the model.                                                     *)
(***************************************************************************)
\* number of put() calls a caller issues on one write session
MaxPuts == 3
\* number of finish() calls a caller issues on one write session
MaxFinish == 2
\* number of messages the operating system buffers in the pipe
PipeCap == 2
\* retries the retry wrapper makes after the first attempt
MaxRetries == 2
\* generations the remote object goes through
MaxGenerations == 2
\* size of the remote object, in bytes
MaxObjSize == 2
\* get_range calls made on one read session
MaxReads == 2
\* objects.Rewrite calls after which the object is rewritten: from the
\* MaxRewriteCalls-th call of a copy on, the answer is not "not done"
MaxRewriteCalls == 4
\* length of a short argument list of delete_batch and copy_batch
MaxItems == 3
\* items of a batch the remote answers independently of each other; the
\* items numbered from NumClasses on are all given the same answer
NumClasses == 2
\* a long argument list has MAX_BATCH_OPERATION_SIZE .. + LargeExtra items
LargeExtra == 1
\* batched requests one copy_batch makes: in the MaxRounds-th the remote
\* answers no sub-request "not done" any more
MaxRounds == 2

\* Maximum number of operations permitted in copy_batch() and delete_batch()
MAX_BATCH_OPERATION_SIZE == 100

None == "None"

\* the chunks a caller may pass to put()
Data == {"a", "b"}

\* the exceptions objects.Insert may end with
UploadErrors == {"HttpError", "IOError"}

VARIABLES
  \* ---- write session (GcsUploader)
  conn_open,        \* self._conn is open (the caller's end of the pipe)
  child_open,       \* self._child_conn is open (the task's end of the pipe)
  pipe,             \* messages sent and not yet received
  last_error,       \* self._upload_thread.last_error
  upload_thread,    \* position of the thread running _start_upload
  upload_exc,       \* the exception _start_upload is handling
  caller,           \* position of the caller: idle, in put(), in finish()
  put_data,         \* the argument of the put() in progress
  call,             \* the last put()/finish(): what it was and how it ended
  sent,             \* the chunks send_bytes has accepted, in order
  consumed,         \* the chunks the transfer has read, in order
  nputs,            \* put() calls issued
  nfinish,          \* finish() calls issued
  put_log,          \* the chunks passed to put(), in call order
  finish_log,       \* how each finish() that completed ended, in order
  \* ---- the remote object a read session reads
  remote_versions,  \* the sizes of the object's generations 1, 2, ...; <<>>: absent
  \* ---- read session (GcsDownloader)
  dl_pc,            \* position: metadata, init_download, open, failed
  dl_attempts,      \* attempts of _get_object_metadata made by the retry wrapper
  dl_size,          \* self._size
  dl_generation,    \* self._get_request.generation (0: not set)
  dl_url_generation,\* the generation in the download's URL (0: none given)
  dl_opened,        \* the generation the metadata answer carried
  dl_stream,        \* self._download_stream
  dl_ret,           \* the last get_range: arguments and what it returned
  dl_reads,         \* every range get_range returned, with the generation served
  dl_nreads,        \* get_range calls made
  dl_error,         \* the exception __init__ raised
  dl_meta_last,     \* the last answer of objects.Get(get_request)
  dl_range_attempts,\* retries made of the get_range in progress
  \* ---- delete(path)
  del_exists,       \* the remote object at path exists
  del_initial,      \* it existed when delete was called
  del_pc,           \* position: calling, returned, raised
  del_attempts,     \* retries made by the retry wrapper
  del_log,          \* the answers of objects.Delete, in order
  del_error,        \* the exception delete raised
  \* ---- copy(src, dest)
  copy_pc,          \* position: calling, returned, raised
  copy_attempts,    \* retries made by the retry wrapper
  copy_token,       \* request.rewriteToken
  copy_requests,    \* the rewriteToken of every request sent, in order
  copy_responses,   \* the answers of objects.Rewrite, in order
  copy_error,       \* the exception copy raised
  \* ---- delete_batch(paths)
  db_paths,         \* the paths argument
  db_pos,           \* how many paths the iterator has handed out
  db_results,       \* result_statuses
  db_pc,            \* position: call, loop, returned, raised
  db_batch,         \* the last batched request: its paths and its answers
  db_nbatches,      \* batched requests executed
  \* ---- copy_batch(src_dest_pairs)
  cb_pairs,         \* the src_dest_pairs argument
  cb_tokens,        \* pair_to_request[pair].rewriteToken
  cb_status,        \* pair_to_status
  cb_pc,            \* position: call, loop, returned, raised
  cb_batch,         \* the last batched request: the token sent for each pair,
                    \* and the pairs that had a status when it was built
  cb_last,          \* the last answer given for each pair
  cb_round,         \* batched requests executed
  cb_result         \* the list copy_batch returned

uploadVars == <<conn_open, child_open, pipe, last_error, upload_thread,
                upload_exc, caller, put_data, call, sent, consumed, nputs,
                nfinish, put_log, finish_log>>

downloadVars == <<remote_versions, dl_pc, dl_attempts, dl_size, dl_generation,
                  dl_url_generation, dl_opened, dl_stream, dl_ret, dl_reads,
                  dl_nreads, dl_error, dl_meta_last, dl_range_attempts>>

deleteVars == <<del_exists, del_initial, del_pc, del_attempts, del_log,
                del_error>>

copyVars == <<copy_pc, copy_attempts, copy_token, copy_requests,
              copy_responses, copy_error>>

deleteBatchVars == <<db_paths, db_pos, db_results, db_pc, db_batch,
                     db_nbatches>>

copyBatchVars == <<cb_pairs, cb_tokens, cb_status, cb_pc, cb_batch, cb_last,
                   cb_round, cb_result>>

vars == <<uploadVars, downloadVars, deleteVars, copyVars, deleteBatchVars,
          copyBatchVars>>

notUploadVars == <<downloadVars, deleteVars, copyVars, deleteBatchVars,
                   copyBatchVars>>
notDownloadVars == <<uploadVars, deleteVars, copyVars, deleteBatchVars,
                     copyBatchVars>>
notDeleteVars == <<uploadVars, downloadVars, copyVars, deleteBatchVars,
                   copyBatchVars>>
notCopyVars == <<uploadVars, downloadVars, deleteVars, deleteBatchVars,
                 copyBatchVars>>
notDeleteBatchVars == <<uploadVars, downloadVars, deleteVars, copyVars,
                        copyBatchVars>>
notCopyBatchVars == <<uploadVars, downloadVars, deleteVars, copyVars,
                      deleteBatchVars>>

(***************************************************************************)
(* GcsUploader                                                              *)
(***************************************************************************)

\* objects.Insert has raised: the transfer has failed
InsertFailed == upload_exc # None

\* the thread has terminated: join() returns
ThreadTerminated == upload_thread \in {"done", "died"}

\* a send_bytes that does not check its own handle
send_bytes_unchecked ==
  IF ~child_open THEN "BrokenPipeError"
  ELSE IF Len(pipe) >= PipeCap THEN "blocked"
  ELSE "sent"

\* a send_bytes on a channel that buffers without limit
send_bytes_unbounded ==
  IF ~conn_open THEN "OSError"
  ELSE IF ~child_open THEN "BrokenPipeError"
  ELSE "sent"

\* multiprocessing Connection.send_bytes on self._conn: the handle is checked
\* first (OSError "handle is closed"), a write to a pipe whose other end is
\* closed fails with BrokenPipeError, a full pipe blocks, otherwise the
\* message is queued.  It never raises EOFError, which only recv raises.
send_bytes ==
  IF ~conn_open THEN "OSError"
  ELSE IF ~child_open THEN "BrokenPipeError"
  ELSE IF Len(pipe) >= PipeCap THEN "blocked"
  ELSE "sent"

\* put(): the except clause around send_bytes.  Only EOFError is caught and
\* replaced by last_error (when set); every other exception propagates.
put_result(sendres) ==
  IF sendres = "sent" THEN "ok"
  ELSE IF sendres = "EOFError"
       THEN (IF last_error # None THEN last_error ELSE "EOFError")
       ELSE sendres

\* a finish() that does not look at last_error
finish_ignores_error == "ok"

\* finish(), after join(): raise last_error when set
finish_result == IF last_error # None THEN last_error ELSE "ok"

\* GcsUploader.__init__: the pipe is created, the thread is started with
\* last_error = None
InitUploader ==
  /\ conn_open = TRUE
  /\ child_open = TRUE
  /\ pipe = <<>>
  /\ last_error = None
  /\ upload_thread = "start"
  /\ upload_exc = None
  /\ caller = "idle"
  /\ put_data = None
  /\ call = [op |-> "none", result |-> "none", after_failure |-> FALSE]
  /\ sent = <<>>
  /\ consumed = <<>>
  /\ nputs = 0
  /\ nfinish = 0
  /\ put_log = <<>>
  /\ finish_log = <<>>

UploaderOff ==
  /\ conn_open = FALSE
  /\ child_open = FALSE
  /\ pipe = <<>>
  /\ last_error = None
  /\ upload_thread = "off"
  /\ upload_exc = None
  /\ caller = "off"
  /\ put_data = None
  /\ call = [op |-> "none", result |-> "none", after_failure |-> FALSE]
  /\ sent = <<>>
  /\ consumed = <<>>
  /\ nputs = 0
  /\ nfinish = 0
  /\ put_log = <<>>
  /\ finish_log = <<>>

\* _start_upload, before the try block: get_project_number(bucket).  get_bucket
\* catches HttpError only; any other exception of the client ends the thread
\* here, outside the try/except/finally: nothing is recorded, nothing closed.
StartUpload ==
  /\ upload_thread = "start"
  /\ \E ok \in BOOLEAN :
       upload_thread' = IF ok THEN "insert" ELSE "died"
  /\ UNCHANGED <<conn_open, child_open, pipe, last_error, upload_exc, caller,
                 put_data, call, sent, consumed, nputs, nfinish>>
  /\ UNCHANGED <<put_log, finish_log>>
  /\ UNCHANGED notUploadVars

\* objects.Insert reading the next message of the pipe through PipeStream
InsertRead ==
  /\ upload_thread = "insert"
  /\ pipe # <<>>
  /\ consumed' = Append(consumed, Head(pipe))
  /\ pipe' = Tail(pipe)
  /\ UNCHANGED <<conn_open, child_open, last_error, upload_thread, upload_exc,
                 caller, put_data, call, sent, nputs, nfinish>>
  /\ UNCHANGED <<put_log, finish_log>>
  /\ UNCHANGED notUploadVars

\* objects.Insert returns: the stream is at its end (the caller's end is
\* closed and the pipe is empty) and the upload went through
InsertReturn ==
  /\ upload_thread = "insert"
  /\ pipe = <<>>
  /\ ~conn_open
  /\ upload_thread' = "finally"
  /\ UNCHANGED <<conn_open, child_open, pipe, last_error, upload_exc, caller,
                 put_data, call, sent, consumed, nputs, nfinish>>
  /\ UNCHANGED <<put_log, finish_log>>
  /\ UNCHANGED notUploadVars

\* objects.Insert raises, at any point of the upload
InsertRaise ==
  /\ upload_thread = "insert"
  /\ \E e \in UploadErrors : upload_exc' = e
  /\ upload_thread' = "except"
  /\ UNCHANGED <<conn_open, child_open, pipe, last_error, caller, put_data,
                 call, sent, consumed, nputs, nfinish>>
  /\ UNCHANGED <<put_log, finish_log>>
  /\ UNCHANGED notUploadVars

\* except Exception as e: self._upload_thread.last_error = e
RecordError ==
  /\ upload_thread = "except"
  /\ last_error' = upload_exc
  /\ upload_thread' = "finally"
  /\ UNCHANGED <<conn_open, child_open, pipe, upload_exc, caller, put_data,
                 call, sent, consumed, nputs, nfinish>>
  /\ UNCHANGED <<put_log, finish_log>>
  /\ UNCHANGED notUploadVars

\* finally: self._child_conn.close(); the thread ends
CloseChild ==
  /\ upload_thread = "finally"
  /\ child_open' = FALSE
  /\ upload_thread' = "done"
  /\ UNCHANGED <<conn_open, pipe, last_error, upload_exc, caller, put_data,
                 call, sent, consumed, nputs, nfinish>>
  /\ UNCHANGED <<put_log, finish_log>>
  /\ UNCHANGED notUploadVars

\* the caller calls put(data)
PutCall ==
  /\ caller = "idle"
  /\ nputs < MaxPuts
  /\ \E d \in Data :
       /\ put_data' = d
       /\ put_log' = Append(put_log, d)
  /\ caller' = "put"
  /\ nputs' = nputs + 1
  /\ call' = [op |-> "put", result |-> "pending", after_failure |-> InsertFailed]
  /\ UNCHANGED <<conn_open, child_open, pipe, last_error, upload_thread,
                 upload_exc, sent, consumed, nfinish>>
  /\ UNCHANGED finish_log
  /\ UNCHANGED notUploadVars

\* put(): send_bytes completes (it stays blocked while the pipe is full)
Put ==
  /\ caller = "put"
  /\ send_bytes # "blocked"
  /\ IF send_bytes = "sent"
     THEN /\ pipe' = Append(pipe, put_data)
          /\ sent' = Append(sent, put_data)
     ELSE UNCHANGED <<pipe, sent>>
  /\ call' = [call EXCEPT !.result = put_result(send_bytes)]
  /\ caller' = "idle"
  /\ put_data' = None
  /\ UNCHANGED <<conn_open, child_open, last_error, upload_thread, upload_exc,
                 consumed, nputs, nfinish>>
  /\ UNCHANGED <<put_log, finish_log>>
  /\ UNCHANGED notUploadVars

\* finish(): self._conn.close(), then join() is entered
FinishCall ==
  /\ caller = "idle"
  /\ nfinish < MaxFinish
  /\ conn_open' = FALSE
  /\ caller' = "join"
  /\ nfinish' = nfinish + 1
  /\ call' = [op |-> "finish", result |-> "pending", after_failure |-> InsertFailed]
  /\ UNCHANGED <<child_open, pipe, last_error, upload_thread, upload_exc,
                 put_data, sent, consumed, nputs>>
  /\ UNCHANGED <<put_log, finish_log>>
  /\ UNCHANGED notUploadVars

\* finish(): join() returns when the thread has terminated; last_error is checked
Finish ==
  /\ caller = "join"
  /\ ThreadTerminated
  /\ call' = [call EXCEPT !.result = finish_result, !.after_failure = InsertFailed]
  /\ caller' = "idle"
  /\ UNCHANGED <<conn_open, child_open, pipe, last_error, upload_thread,
                 upload_exc, put_data, sent, consumed, nputs, nfinish>>
  /\ finish_log' = Append(finish_log, finish_result)
  /\ UNCHANGED put_log
  /\ UNCHANGED notUploadVars

NextUpload ==
  \/ StartUpload
  \/ InsertRead
  \/ InsertReturn
  \/ InsertRaise
  \/ RecordError
  \/ CloseChild
  \/ PutCall
  \/ Put
  \/ FinishCall
  \/ Finish

(***************************************************************************)
(* The retry wrapper (apache_beam.utils.retry)                              *)
(***************************************************************************)

\* retry_on_server_errors_and_timeout_filter: server errors (5xx) and timeouts
\* are transient
retry_on_server_errors_and_timeout_filter(exn) ==
  exn \in {"HttpError503", "Timeout"}

\* with_exponential_backoff, after an attempt ended with exception exn: retry
\* while the filter accepts the exception and retries are left, else raise it
with_exponential_backoff(exn, attempts) ==
  IF retry_on_server_errors_and_timeout_filter(exn) /\ attempts < MaxRetries
  THEN "retry"
  ELSE "raise"

(***************************************************************************)
(* GcsDownloader                                                            *)
(***************************************************************************)

Min(a, b) == IF a <= b THEN a ELSE b

\* the remote object: byte i (from 1) of generation g
ObjectByte(g, i) == (g * 16 + i) % 256

ObjectBytes(g) == [i \in 1..remote_versions[g] |-> ObjectByte(g, i)]

\* the generation a ranged GET is answered from: the one in the URL, or the
\* live one when the URL names none
served_generation(url_generation) ==
  IF url_generation = 0 THEN Len(remote_versions) ELSE url_generation

\* the answer to a ranged GET of bytes first..last (both included, from 0)
RangeBytes(g, first, last) ==
  SubSeq(ObjectBytes(g), first + 1, Min(last + 1, remote_versions[g]))

\* what objects.Get(get_request) answers
MetadataResponses ==
  (IF remote_versions = <<>> THEN {"HttpError404"} ELSE {"ok"})
    \cup {"HttpError503", "Timeout", "HttpError403"}

\* an __init__ that re-raises every exception as it came
init_error_raw(exn) == exn

\* __init__, except HttpError: 404 becomes IOError(ENOENT), others are re-raised
init_error(exn) == IF exn = "HttpError404" THEN "IOError_ENOENT" ELSE exn

\* self._get_request.generation = metadata.generation
pinned_generation(metadata_generation) == metadata_generation

\* a get_range that leaves the stream as the last call left it
no_truncate(stream) == stream

\* self._download_stream.seek(0); self._download_stream.truncate(0)
truncate(stream) == <<>>

\* self._downloader.GetRange(first, last): the bytes first..last (included) are
\* written to the stream at its position; the transfer may fail after k bytes
GetRange(stream, g, first, last, k) ==
  stream \o SubSeq(RangeBytes(g, first, last), 1,
                   Min(k, Len(RangeBytes(g, first, last))))

\* get_range(start, end): the stream after the call
get_range(stream, g, start, end, k) ==
  GetRange(truncate(stream), g, start, end - 1, k)

InitDownloader ==
  /\ remote_versions \in {<<>>} \cup {<<n>> : n \in 1..MaxObjSize}
  /\ dl_pc = "metadata"
  /\ dl_attempts = 0
  /\ dl_size = 0
  /\ dl_generation = 0
  /\ dl_url_generation = 0
  /\ dl_opened = 0
  /\ dl_stream = <<>>
  /\ dl_ret = [start |-> 0, end |-> 0, raised |-> FALSE, error |-> None,
               retries |-> 0, bytes |-> <<>>, before |-> <<>>]
  /\ dl_reads = {}
  /\ dl_nreads = 0
  /\ dl_error = None
  /\ dl_meta_last = None
  /\ dl_range_attempts = 0

DownloaderOff ==
  /\ remote_versions = <<>>
  /\ dl_pc = "off"
  /\ dl_attempts = 0
  /\ dl_size = 0
  /\ dl_generation = 0
  /\ dl_url_generation = 0
  /\ dl_opened = 0
  /\ dl_stream = <<>>
  /\ dl_ret = [start |-> 0, end |-> 0, raised |-> FALSE, error |-> None,
               retries |-> 0, bytes |-> <<>>, before |-> <<>>]
  /\ dl_reads = {}
  /\ dl_nreads = 0
  /\ dl_error = None
  /\ dl_meta_last = None
  /\ dl_range_attempts = 0

\* the remote object is overwritten (or created): a new generation
Overwrite ==
  /\ dl_pc # "off"
  /\ Len(remote_versions) < MaxGenerations
  /\ \E n \in 1..MaxObjSize : remote_versions' = Append(remote_versions, n)
  /\ UNCHANGED <<dl_pc, dl_attempts, dl_size, dl_generation, dl_url_generation,
                 dl_opened, dl_stream, dl_ret, dl_reads, dl_nreads, dl_error,
                 dl_meta_last, dl_range_attempts>>
  /\ UNCHANGED notDownloadVars

\* __init__: one attempt of _get_object_metadata under the retry wrapper, and,
\* once it has answered, the size and the generation are taken from it
GetObjectMetadata ==
  /\ dl_pc = "metadata"
  /\ \E r \in MetadataResponses :
       /\ dl_meta_last' = r
       /\ IF r = "ok"
          THEN /\ dl_size' = remote_versions[Len(remote_versions)]
               /\ dl_generation' = pinned_generation(Len(remote_versions))
               /\ dl_opened' = Len(remote_versions)
               /\ dl_pc' = "init_download"
               /\ UNCHANGED <<dl_attempts, dl_error>>
          ELSE IF with_exponential_backoff(r, dl_attempts) = "retry"
          THEN /\ dl_attempts' = dl_attempts + 1
               /\ UNCHANGED <<dl_size, dl_generation, dl_opened, dl_pc, dl_error>>
          ELSE /\ dl_pc' = "failed"
               /\ dl_error' = init_error(r)
               /\ UNCHANGED <<dl_size, dl_generation, dl_opened, dl_attempts>>
  /\ UNCHANGED <<remote_versions, dl_url_generation, dl_stream, dl_ret,
                 dl_reads, dl_nreads, dl_range_attempts>>
  /\ UNCHANGED notDownloadVars

\* a download initialised from a request that carries no generation
download_url_no_generation == dl_url_generation

\* the URL the download is initialised with, from self._get_request
download_url_generation == dl_generation

\* __init__: the stream and the Download are created, and
\* objects.Get(self._get_request, download=self._downloader) initialises the
\* download from the request; an HttpError is re-raised
InitializeDownload ==
  /\ dl_pc = "init_download"
  /\ \E r \in {"ok", "HttpError403"} :
       IF r = "ok"
       THEN /\ dl_url_generation' = download_url_generation
            /\ dl_pc' = "open"
            /\ UNCHANGED dl_error
       ELSE /\ dl_pc' = "failed"
            /\ dl_error' = r
            /\ UNCHANGED dl_url_generation
  /\ dl_stream' = <<>>
  /\ UNCHANGED <<remote_versions, dl_attempts, dl_size, dl_generation,
                 dl_opened, dl_ret, dl_reads, dl_nreads, dl_meta_last,
                 dl_range_attempts>>
  /\ UNCHANGED notDownloadVars

\* what self._downloader.GetRange raises when the transfer fails (the
\* Download makes its own num_retries attempts of a request before it does)
GetRangeErrors == {"HttpError503", "HttpError403"}

\* a get_range decorated like _get_object_metadata
get_range_retried(exn, attempts) == with_exponential_backoff(exn, attempts)

\* get_range carries no retry decorator: what GetRange raises, get_range raises
get_range_on_error(exn, attempts) == "raise"

\* get_range(start, end) with 0 <= start < end <= size; the transfer delivers
\* all end - start bytes, or fails with e after k of them
GetRangeCall ==
  /\ dl_pc = "open"
  /\ dl_range_attempts > 0 \/ dl_nreads < MaxReads
  /\ \E start \in 0..(dl_size - 1) :
     \E end \in (start + 1)..dl_size :
     \E k \in 0..(end - start) :
     \E e \in GetRangeErrors :
       LET g == served_generation(dl_url_generation)
           stream == get_range(dl_stream, g, start, end, k)
           complete == k = end - start
           retry == /\ ~complete
                    /\ get_range_on_error(e, dl_range_attempts) = "retry"
       IN /\ dl_range_attempts > 0 =>
               (start = dl_ret.start /\ end = dl_ret.end)
          /\ complete => e = "HttpError503"   \* e plays no part then
          /\ dl_stream' = stream
          /\ dl_ret' = [start |-> start, end |-> end, raised |-> ~complete,
                        error |-> IF complete THEN None ELSE e,
                        retries |-> dl_range_attempts,
                        bytes |-> IF complete THEN stream ELSE <<>>,
                        before |-> dl_stream]
          /\ dl_reads' = IF complete
                         THEN dl_reads \cup {[start |-> start, end |-> end,
                                              served |-> g, bytes |-> stream,
                                              live |-> Len(remote_versions)]}
                         ELSE dl_reads
          /\ dl_range_attempts' = IF retry THEN dl_range_attempts + 1 ELSE 0
  /\ dl_nreads' = IF dl_range_attempts > 0 THEN dl_nreads ELSE dl_nreads + 1
  /\ UNCHANGED <<remote_versions, dl_pc, dl_attempts, dl_size, dl_generation,
                 dl_url_generation, dl_opened, dl_error, dl_meta_last>>
  /\ UNCHANGED notDownloadVars

NextDownload ==
  \/ Overwrite
  \/ GetObjectMetadata
  \/ InitializeDownload
  \/ GetRangeCall

(***************************************************************************)
(* GcsIO.delete                                                             *)
(***************************************************************************)

\* what objects.Delete answers, and whether the object was removed: the
\* answer to a delete that went through may be lost (a timeout)
DeleteAnswers ==
  IF del_exists
  THEN {<<"ok", TRUE>>, <<"Timeout", TRUE>>, <<"Timeout", FALSE>>,
        <<"HttpError503", FALSE>>, <<"HttpError403", FALSE>>}
  ELSE {<<"HttpError404", FALSE>>, <<"Timeout", FALSE>>,
        <<"HttpError503", FALSE>>, <<"HttpError403", FALSE>>}

\* a delete that returns on every HttpError
delete_returns_on_error(answer) ==
  IF answer \in {"ok", "HttpError404", "HttpError403"} THEN "return"
  ELSE "raise"

\* a delete that re-raises every HttpError
delete_no_404(answer) == IF answer = "ok" THEN "return" ELSE "raise"

\* delete, the try block: a 404 HttpError returns, anything else is re-raised
delete(answer) ==
  IF answer = "ok" THEN "return"
  ELSE IF answer = "HttpError404" THEN "return"
  ELSE "raise"

InitDeleter ==
  /\ del_exists \in BOOLEAN
  /\ del_initial = del_exists
  /\ del_pc = "calling"
  /\ del_attempts = 0
  /\ del_log = <<>>
  /\ del_error = None

DeleterOff ==
  /\ del_exists = FALSE
  /\ del_initial = FALSE
  /\ del_pc = "off"
  /\ del_attempts = 0
  /\ del_log = <<>>
  /\ del_error = None

\* one attempt of delete under the retry wrapper
DeleteAttempt ==
  /\ del_pc = "calling"
  /\ \E a \in DeleteAnswers :
       /\ del_exists' = (del_exists /\ ~a[2])
       /\ del_log' = Append(del_log, a[1])
       /\ IF delete(a[1]) = "return"
          THEN /\ del_pc' = "returned"
               /\ UNCHANGED <<del_attempts, del_error>>
          ELSE IF with_exponential_backoff(a[1], del_attempts) = "retry"
          THEN /\ del_attempts' = del_attempts + 1
               /\ UNCHANGED <<del_pc, del_error>>
          ELSE /\ del_pc' = "raised"
               /\ del_error' = a[1]
               /\ UNCHANGED del_attempts
  /\ UNCHANGED del_initial
  /\ UNCHANGED notDeleteVars

\* another client creates or removes the object while delete is running
OtherClient ==
  /\ del_pc = "calling"
  /\ del_exists' = ~del_exists
  /\ UNCHANGED <<del_initial, del_pc, del_attempts, del_log, del_error>>
  /\ UNCHANGED notDeleteVars

NextDelete ==
  \/ DeleteAttempt
  \/ OtherClient

(***************************************************************************)
(* GcsIO.copy                                                               *)
(***************************************************************************)

Tokens == {"T1", "T2"}

RewriteErrors == {"HttpError404", "HttpError503", "Timeout", "HttpError403"}

\* what objects.Rewrite answers: done, progress with a token, or an error
RewriteAnswers ==
  {[error |-> None, done |-> TRUE, token |-> None]}
    \cup {[error |-> None, done |-> FALSE, token |-> t] : t \in Tokens}
    \cup {[error |-> e, done |-> FALSE, token |-> None] : e \in RewriteErrors}

\* what objects.Rewrite answers to the n-th call of a copy
RewriteAnswersAt(n) ==
  IF n < MaxRewriteCalls
  THEN RewriteAnswers
  ELSE {r \in RewriteAnswers : r.error # None \/ r.done}

\* a retry that sends the request of the failed call again
retry_keeps_token(token) == token

\* the retry wrapper calls copy again: the request is built anew, and a new
\* request has no rewriteToken
retry_rewrite_token(token) == None

\* a copy that polls again without the token it was given
no_rewrite_token(response) == None

\* request.rewriteToken = response.rewriteToken
next_rewrite_token(response) == response.token

\* a copy that labels a 404 the way copy_batch does
copy_translated(exn) ==
  IF exn = "HttpError404" THEN "GcsIOError_ENOENT" ELSE exn

\* copy has no except clause: what objects.Rewrite raises is what copy raises
copy_raises(exn) == exn

InitCopier ==
  /\ copy_pc = "calling"
  /\ copy_attempts = 0
  /\ copy_token = None
  /\ copy_requests = <<>>
  /\ copy_responses = <<>>
  /\ copy_error = None

CopierOff ==
  /\ copy_pc = "off"
  /\ copy_attempts = 0
  /\ copy_token = None
  /\ copy_requests = <<>>
  /\ copy_responses = <<>>
  /\ copy_error = None

\* one objects.Rewrite call of copy and what copy does with its answer: return
\* when done, set the token and poll again when not; an exception goes to the
\* retry wrapper, which calls copy again (a new request, without token) or
\* raises it
CopyRewrite ==
  /\ copy_pc = "calling"
  /\ \E r \in RewriteAnswersAt(Len(copy_requests) + 1) :
       /\ copy_requests' = Append(copy_requests, copy_token)
       /\ copy_responses' = Append(copy_responses, r)
       /\ IF r.error = None
          THEN IF r.done
               THEN /\ copy_pc' = "returned"
                    /\ UNCHANGED <<copy_token, copy_attempts, copy_error>>
               ELSE /\ copy_token' = next_rewrite_token(r)
                    /\ UNCHANGED <<copy_pc, copy_attempts, copy_error>>
          ELSE IF with_exponential_backoff(r.error, copy_attempts) = "retry"
               THEN /\ copy_attempts' = copy_attempts + 1
                    /\ copy_token' = retry_rewrite_token(copy_token)
                    /\ UNCHANGED <<copy_pc, copy_error>>
               ELSE /\ copy_pc' = "raised"
                    /\ copy_error' = copy_raises(r.error)
                    /\ UNCHANGED <<copy_token, copy_attempts>>
  /\ UNCHANGED notCopyVars

NextCopy == CopyRewrite

(***************************************************************************)
(* GcsIO.rename                                                             *)
(***************************************************************************)

\* the remote: the destination object exists once a Rewrite was answered done
dest_present == \E k \in 1..Len(copy_responses) : copy_responses[k].done

\* a rename that deletes the source whatever became of the copy
rename_deletes_always == copy_pc \in {"returned", "raised"}

\* rename: self.delete(src) is reached when self.copy(src, dest) has returned
rename_calls_delete == copy_pc = "returned"

\* rename(src, dest) is called on a source that exists: copy is entered,
\* delete is not yet
InitRenamer ==
  /\ InitCopier
  /\ del_exists = TRUE
  /\ del_initial = TRUE
  /\ del_pc = "waiting"
  /\ del_attempts = 0
  /\ del_log = <<>>
  /\ del_error = None

\* rename: self.copy(src, dest) has returned and self.delete(src) is called
RenameCallDelete ==
  /\ del_pc = "waiting"
  /\ rename_calls_delete
  /\ del_pc' = "calling"
  /\ UNCHANGED <<del_exists, del_initial, del_attempts, del_log, del_error>>
  /\ UNCHANGED notDeleteVars

NextRename ==
  \/ CopyRewrite
  \/ RenameCallDelete
  \/ DeleteAttempt

(***************************************************************************)
(* Arguments and answers of the batch operations                            *)
(***************************************************************************)

Range(f) == {f[i] : i \in DOMAIN f}

\* items are numbered; the remote answers the items 1 .. NumClasses - 1 each
\* on its own and gives all the others one common answer
Class(p) == IF p < NumClasses THEN p ELSE NumClasses

\* short argument lists: every list of at most MaxItems items in which a new
\* item is the next number not used yet (lists equal up to renaming are one)
ShortLists ==
  {l \in UNION {[1..n -> 1..NumClasses] : n \in 0..MaxItems} :
     \A i \in DOMAIN l :
       \/ l[i] = 1
       \/ \E j \in 1..(i - 1) : l[j] >= l[i] - 1}

\* long argument lists: distinct items, and one list longer than
\* MAX_BATCH_OPERATION_SIZE that repeats its first item at the end
LongLists ==
  {[i \in 1..n |-> i] :
     n \in MAX_BATCH_OPERATION_SIZE..(MAX_BATCH_OPERATION_SIZE + LargeExtra)}
    \cup {[i \in 1..(MAX_BATCH_OPERATION_SIZE + 1) |->
             ((i - 1) % MAX_BATCH_OPERATION_SIZE) + 1]}

(***************************************************************************)
(* GcsIO.delete_batch                                                       *)
(***************************************************************************)

\* what a Delete sub-request is answered
DeleteSubAnswers == {"ok", "HttpError404", "HttpError403"}

\* a chunk that is the whole rest of the list
paths_rest(paths, pos) == SubSeq(paths, pos + 1, Len(paths))

\* list(islice(paths, MAX_BATCH_OPERATION_SIZE)) on the iterator at pos
paths_chunk(paths, pos) ==
  SubSeq(paths, pos + 1, Min(pos + MAX_BATCH_OPERATION_SIZE, Len(paths)))

\* a delete_batch that records a 404 like any other error
delete_batch_raw_exception(answer) == IF answer = "ok" THEN None ELSE answer

\* the exception recorded for a sub-request: None when it succeeded or was
\* answered 404
delete_batch_exception(answer) ==
  IF answer = "ok" THEN None
  ELSE IF answer = "HttpError404" THEN None
  ELSE answer

InitDeleteBatcher ==
  /\ db_paths \in ShortLists \cup LongLists
  /\ db_pos = 0
  /\ db_results = <<>>
  /\ db_pc = "call"
  /\ db_batch = [paths |-> <<>>, answers |-> <<>>]
  /\ db_nbatches = 0

DeleteBatcherOff ==
  /\ db_paths = <<>>
  /\ db_pos = 0
  /\ db_results = <<>>
  /\ db_pc = "off"
  /\ db_batch = [paths |-> <<>>, answers |-> <<>>]
  /\ db_nbatches = 0

\* delete_batch is called: an empty list returns [] at once
DeleteBatchCall ==
  /\ db_pc = "call"
  /\ db_pc' = IF db_paths = <<>> THEN "returned" ELSE "loop"
  /\ UNCHANGED <<db_paths, db_pos, db_results, db_batch, db_nbatches>>
  /\ UNCHANGED notDeleteBatchVars

\* one turn of the while loop: the next chunk; when it is empty the results
\* are returned, else its batched request is executed and one status per path
\* of the chunk is appended
DeleteBatchRound ==
  /\ db_pc = "loop"
  /\ LET chunk == paths_chunk(db_paths, db_pos)
     IN IF chunk = <<>>
        THEN /\ db_pc' = "returned"
             /\ UNCHANGED <<db_pos, db_results, db_batch, db_nbatches>>
        ELSE \E g \in [{Class(chunk[i]) : i \in DOMAIN chunk} -> DeleteSubAnswers] :
               LET answers == [i \in 1..Len(chunk) |-> g[Class(chunk[i])]]
               IN /\ db_batch' = [paths |-> chunk, answers |-> answers]
                  /\ db_nbatches' = db_nbatches + 1
                  /\ db_pos' = db_pos + Len(chunk)
                  /\ db_results' = db_results \o
                       [i \in 1..Len(chunk) |->
                          [path |-> chunk[i],
                           exception |-> delete_batch_exception(answers[i])]]
                  /\ UNCHANGED db_pc
  /\ UNCHANGED db_paths
  /\ UNCHANGED notDeleteBatchVars

\* batch_request.Execute raises (the batched call as a whole failed):
\* delete_batch has no except clause
DeleteBatchExecuteRaises ==
  /\ db_pc = "loop"
  /\ paths_chunk(db_paths, db_pos) # <<>>
  /\ db_pc' = "raised"
  /\ db_nbatches' = db_nbatches + 1
  /\ db_pos' = db_pos + Len(paths_chunk(db_paths, db_pos))
  /\ UNCHANGED <<db_paths, db_results, db_batch>>
  /\ UNCHANGED notDeleteBatchVars

NextDeleteBatch ==
  \/ DeleteBatchCall
  \/ DeleteBatchRound
  \/ DeleteBatchExecuteRaises

(***************************************************************************)
(* GcsIO.copy_batch                                                         *)
(***************************************************************************)

\* what a Rewrite sub-request is answered
RewriteSubAnswers == {"done", "progress", "HttpError404", "HttpError403"}

\* what a Rewrite sub-request is answered in the n-th batched request
RewriteSubAnswersAt(n) ==
  IF n < MaxRounds THEN RewriteSubAnswers ELSE RewriteSubAnswers \ {"progress"}

NoToken == <<>>

\* the rewriteToken the remote returns for pair p in round r
RewriteToken(p, r) == <<p, r>>

\* a batch of every pair that is not done, failed ones included
pairs_not_done(pairs, status) ==
  Range(pairs) \ {p \in DOMAIN status : status[p] = None}

\* a batch of every pair of the list, finished or not
all_pairs(pairs, status) == Range(pairs)

\* list(set(src_dest_pairs) - set(pair_to_status))
pairs_in_batch(pairs, status) == Range(pairs) \ DOMAIN status

\* a copy_batch that records the exception as it came
raw_exception(exn) == exn

\* the exception recorded for a sub-request that is an error: a 404 HttpError
\* becomes GcsIOError(errno.ENOENT, 'Source file not found: ...')
copy_batch_exception(exn) ==
  IF exn = "HttpError404" THEN "GcsIOError_ENOENT" ELSE exn

\* a loop that records no status for a sub-request that is an error
pair_to_status_done_only(status, batch, answer) ==
  LET had == DOMAIN status
  IN [p \in had \cup {q \in batch : answer[q] = "done"} |->
        IF p \in had THEN status[p] ELSE None]

\* a loop that records success for every sub-request that is not in progress
pair_to_status_all_success(status, batch, answer) ==
  LET had == DOMAIN status
  IN [p \in had \cup {q \in batch : answer[q] # "progress"} |->
        IF p \in had THEN status[p] ELSE None]

\* the for loop over zip(pairs_in_batch, api_calls): pair_to_status afterwards
pair_to_status_after(status, batch, answer) ==
  LET had == DOMAIN status
  IN [p \in had \cup {q \in batch : answer[q] # "progress"} |->
        IF p \in had THEN status[p]
        ELSE IF answer[p] = "done" THEN None
        ELSE copy_batch_exception(answer[p])]

\* a loop that stores the token of one answer in every request in progress
pair_to_token_misplaced(tokens, batch, answer, round) ==
  [p \in DOMAIN tokens |->
     IF p \in batch /\ answer[p] = "progress"
     THEN RewriteToken(CHOOSE q \in batch : answer[q] = "progress", round)
     ELSE tokens[p]]

\* the for loop over zip(pairs_in_batch, api_calls): the rewriteToken of every
\* request afterwards
pair_to_token_after(tokens, batch, answer, round) ==
  [p \in DOMAIN tokens |->
     IF p \in batch /\ answer[p] = "progress"
     THEN RewriteToken(p, round)
     ELSE tokens[p]]

\* a result with one entry per pair that has a status
copy_batch_result_by_status(pairs, status) ==
  [i \in 1..Cardinality(Range(pairs)) |->
     LET p == CHOOSE q \in Range(pairs) :
                Cardinality({x \in Range(pairs) : x < q}) = i - 1
     IN [pair |-> p, exception |-> status[p]]]

\* [(pair[0], pair[1], pair_to_status[pair]) for pair in src_dest_pairs]
copy_batch_result(pairs, status) ==
  [i \in 1..Len(pairs) |-> [pair |-> pairs[i], exception |-> status[pairs[i]]]]

InitCopyBatcher ==
  /\ cb_pairs \in ShortLists \cup LongLists
  /\ cb_tokens = <<>>
  /\ cb_status = <<>>
  /\ cb_pc = "call"
  /\ cb_batch = [request |-> <<>>, settled |-> {}]
  /\ cb_last = <<>>
  /\ cb_round = 0
  /\ cb_result = <<>>

CopyBatcherOff ==
  /\ cb_pairs = <<>>
  /\ cb_tokens = <<>>
  /\ cb_status = <<>>
  /\ cb_pc = "off"
  /\ cb_batch = [request |-> <<>>, settled |-> {}]
  /\ cb_last = <<>>
  /\ cb_round = 0
  /\ cb_result = <<>>

\* copy_batch is called: an empty list returns [] at once, else a request
\* without token is built for every pair and pair_to_status starts empty
CopyBatchCall ==
  /\ cb_pc = "call"
  /\ cb_pc' = IF cb_pairs = <<>> THEN "returned" ELSE "loop"
  /\ cb_tokens' = [p \in Range(cb_pairs) |-> NoToken]
  /\ cb_status' = [p \in {} |-> None]
  /\ cb_last' = [p \in {} |-> None]
  /\ UNCHANGED <<cb_pairs, cb_batch, cb_round, cb_result>>
  /\ UNCHANGED notCopyBatchVars

\* one turn of the while loop with pairs left: their requests are executed as
\* one batched request and every answer is handled
CopyBatchRound ==
  /\ cb_pc = "loop"
  /\ cb_round < MaxRounds
  /\ LET batch == pairs_in_batch(cb_pairs, cb_status)
     IN /\ batch # {}
        /\ \E g \in [{Class(p) : p \in batch} ->
                        RewriteSubAnswersAt(cb_round + 1)] :
             LET answer == [p \in batch |-> g[Class(p)]]
             IN /\ cb_batch' = [request |-> [p \in batch |-> cb_tokens[p]],
                                settled |-> DOMAIN cb_status]
                /\ cb_round' = cb_round + 1
                /\ cb_status' = pair_to_status_after(cb_status, batch, answer)
                /\ cb_tokens' = pair_to_token_after(cb_tokens, batch, answer,
                                                    cb_round + 1)
                /\ cb_last' = [p \in DOMAIN cb_last \cup batch |->
                                 IF p \in batch THEN answer[p] ELSE cb_last[p]]
  /\ UNCHANGED <<cb_pairs, cb_pc, cb_result>>
  /\ UNCHANGED notCopyBatchVars

\* the turn of the while loop that finds no pair left: break, and the list of
\* results is returned
CopyBatchReturn ==
  /\ cb_pc = "loop"
  /\ pairs_in_batch(cb_pairs, cb_status) = {}
  /\ cb_pc' = "returned"
  /\ cb_result' = copy_batch_result(cb_pairs, cb_status)
  /\ UNCHANGED <<cb_pairs, cb_tokens, cb_status, cb_batch, cb_last, cb_round>>
  /\ UNCHANGED notCopyBatchVars

\* batch_request.Execute raises (the batched call as a whole failed):
\* copy_batch has no except clause
CopyBatchExecuteRaises ==
  /\ cb_pc = "loop"
  /\ cb_round < MaxRounds
  /\ pairs_in_batch(cb_pairs, cb_status) # {}
  /\ cb_pc' = "raised"
  /\ cb_round' = cb_round + 1
  /\ cb_batch' = [request |-> [p \in pairs_in_batch(cb_pairs, cb_status) |->
                                  cb_tokens[p]],
                   settled |-> DOMAIN cb_status]
  /\ UNCHANGED <<cb_pairs, cb_tokens, cb_status, cb_last, cb_result>>
  /\ UNCHANGED notCopyBatchVars

NextCopyBatch ==
  \/ CopyBatchCall
  \/ CopyBatchRound
  \/ CopyBatchReturn
  \/ CopyBatchExecuteRaises

(***************************************************************************)
(* Specifications                                                           *)
(***************************************************************************)

OthersOff(on) ==
  /\ on = "upload" \/ UploaderOff
  /\ on = "download" \/ DownloaderOff
  /\ on = "delete" \/ DeleterOff
  /\ on = "copy" \/ CopierOff
  /\ on = "delete_batch" \/ DeleteBatcherOff
  /\ on = "copy_batch" \/ CopyBatcherOff

InitUpload == InitUploader /\ OthersOff("upload")

InitDownload == InitDownloader /\ OthersOff("download")

InitDelete == InitDeleter /\ OthersOff("delete")

InitCopy == InitCopier /\ OthersOff("copy")

InitDeleteBatch == InitDeleteBatcher /\ OthersOff("delete_batch")

InitCopyBatch == InitCopyBatcher /\ OthersOff("copy_batch")

SpecUpload == InitUpload /\ [][NextUpload]_vars

\* the thread of _start_upload is scheduled, objects.Insert reads what the pipe
\* holds and ends once the stream is at its end, and join() returns once the
\* thread has ended
SpecUploadFair ==
  /\ SpecUpload
  /\ WF_vars(StartUpload)
  /\ WF_vars(InsertRead)
  /\ WF_vars(InsertReturn)
  /\ WF_vars(RecordError)
  /\ WF_vars(CloseChild)
  /\ WF_vars(Finish)

SpecDownload == InitDownload /\ [][NextDownload]_vars

SpecDelete == InitDelete /\ [][NextDelete]_vars

SpecCopy == InitCopy /\ [][NextCopy]_vars

SpecDeleteBatch == InitDeleteBatch /\ [][NextDeleteBatch]_vars

SpecCopyBatch == InitCopyBatch /\ [][NextCopyBatch]_vars

\* delete and copy side by side, each attempt of which is answered: one or
\* the other is called
SpecDeleteAndCopyFair ==
  /\ (InitDelete \/ InitCopy)
  /\ [][NextDelete \/ NextCopy]_vars
  /\ WF_vars(DeleteAttempt)
  /\ WF_vars(CopyRewrite)

InitRename ==
  /\ InitRenamer
  /\ UploaderOff
  /\ DownloaderOff
  /\ DeleteBatcherOff
  /\ CopyBatcherOff

SpecRename == InitRename /\ [][NextRename]_vars

\* copy and copy_batch side by side: one or the other is called
SpecCopyAndCopyBatch ==
  (InitCopy \/ InitCopyBatch) /\ [][NextCopy \/ NextCopyBatch]_vars

\* copy_batch runs on, and every batched request is answered or raises
SpecCopyBatchFair ==
  /\ SpecCopyBatch
  /\ WF_vars(CopyBatchCall)
  /\ WF_vars(CopyBatchRound \/ CopyBatchExecuteRaises)
  /\ WF_vars(CopyBatchReturn)

\* delete_batch and copy_batch side by side: one or the other is called
SpecBatch ==
  (InitDeleteBatch \/ InitCopyBatch)
    /\ [][NextDeleteBatch \/ NextCopyBatch]_vars

(***************************************************************************)
(* Write session: a failure of the transfer reaches the caller              *)
(***************************************************************************)

\* C1: when the transfer task has failed, the next put() issued after the
\* failure raises the captured failure, and finish() never returns normally.
C1_FailureSurfaces ==
  /\ (call.op = "put" /\ call.after_failure /\ call.result # "pending")
       => (call.result \in UploadErrors /\ call.result = last_error)
  /\ (call.op = "finish" /\ call.after_failure /\ call.result # "pending")
       => call.result # "ok"

IsPrefix(s, t) == Len(s) <= Len(t) /\ SubSeq(t, 1, Len(s)) = s

\* C13: the chunks the transfer has consumed are at every moment a prefix of
\* the chunks passed to put(), in call order, and when finish() returns
\* without error the transfer has consumed all of them.
C13_InOrderAndComplete ==
  /\ IsPrefix(consumed, put_log)
  /\ (call.op = "finish" /\ call.result = "ok") => consumed = put_log

\* C14: finish() closes the caller's end of the pipe; it completes only when
\* the thread has terminated, raising last_error when it is set and returning
\* normally when it is not; and a finish() that was called completes.
C14_FinishWaitsForTask ==
  /\ [](caller = "join" => ~conn_open)
  /\ []((call.op = "finish" /\ call.result # "pending") =>
          /\ ~conn_open
          /\ ThreadTerminated
          /\ call.result = IF last_error # None THEN last_error ELSE "ok")
  /\ (caller = "join") ~> (caller = "idle")

\* finish() raised the error of an upload that failed after it had consumed
\* a chunk
C14_Witness ==
  /\ call.op = "finish"
  /\ call.result \in UploadErrors
  /\ consumed # <<>>

\* C15: a put() issued after finish() raises and delivers nothing; once the
\* first finish() has completed, the pipe, the thread and last_error do not
\* change any more, a later finish() finds the thread terminated (join()
\* does not block) and ends the way the first one did.
C15_AfterFinish ==
  /\ []((call.op = "put" /\ call.result # "pending" /\ nfinish > 0) =>
          call.result = "OSError")
  /\ []((caller = "join" /\ nfinish > 1) => ThreadTerminated)
  /\ [](\A i \in 1..Len(finish_log) : finish_log[i] = finish_log[1])
  /\ [][nfinish > 0 => sent' = sent]_vars
  /\ [][finish_log # <<>> =>
         <<conn_open, child_open, pipe, sent, consumed, last_error,
           upload_thread>>' =
         <<conn_open, child_open, pipe, sent, consumed, last_error,
           upload_thread>>]_vars

\* finish() raised, a put() after it raised, and a second finish() raised the
\* same error again
C15_Witness ==
  /\ Len(finish_log) = 2
  /\ finish_log[1] \in UploadErrors
  /\ nputs > 0
  /\ Len(sent) < Len(put_log)

\* C16: the pipe never holds more than PipeCap messages, and a put() that
\* finds it full stays suspended until the transfer has read from it.
C16_ChannelBounded ==
  /\ [](Len(pipe) <= PipeCap)
  /\ [][(caller = "put" /\ conn_open /\ child_open /\ Len(pipe) >= PipeCap) =>
         (caller' = "put" /\ sent' = sent)]_vars

\* a put() is suspended on a full pipe while objects.Insert is running
C16_Witness ==
  /\ caller = "put"
  /\ send_bytes = "blocked"
  /\ Len(pipe) = PipeCap
  /\ upload_thread = "insert"

\* C24: the thread sets last_error before it closes its end of the pipe, and
\* a put() of a session that has not been finished raises nothing but the
\* stored error.
C24_PutRaisesStoredError ==
  /\ (InsertFailed /\ ~child_open) => last_error = upload_exc
  /\ (call.op = "put" /\ nfinish = 0 /\ call.result \notin {"pending", "ok"})
       => (last_error # None /\ call.result = last_error)

\* C25: last_error is None until the thread sets it to the exception of
\* objects.Insert, keeps its value once set, and every put() or finish() that
\* raises when it is set raises it.
C25_ErrorSlotStable ==
  /\ [](upload_thread \in {"start", "insert", "except"} => last_error = None)
  /\ [](last_error # None => last_error = upload_exc)
  /\ [][last_error # None => last_error' = last_error]_vars
  /\ []((call.op \in {"put", "finish"}
          /\ call.result \notin {"pending", "ok"}
          /\ last_error # None)
         => call.result = last_error)

(***************************************************************************)
(* Read session: generation pinning and range reads                         *)
(***************************************************************************)

\* C4: the request of an open read session, the URL of its download and every
\* range it has read carry the generation the metadata answer had at open,
\* whatever generations the object has gone through since; two reads of the
\* same range return the same bytes.
C4_GenerationPinned ==
  /\ dl_pc = "init_download" => dl_generation = dl_opened
  /\ dl_pc = "open" =>
        /\ dl_opened >= 1
        /\ dl_generation = dl_opened
        /\ dl_url_generation = dl_opened
  /\ \A r \in dl_reads :
        /\ r.served = dl_opened
        /\ r.bytes = SubSeq(ObjectBytes(dl_opened), r.start + 1, r.end)
  /\ \A r1, r2 \in dl_reads :
        (r1.start = r2.start /\ r1.end = r2.end) => r1.bytes = r2.bytes

\* the same range was read before and after the object was overwritten
C4_Witness ==
  \E r1, r2 \in dl_reads :
    /\ r1.start = r2.start
    /\ r1.end = r2.end
    /\ r1.live = dl_opened
    /\ r2.live > dl_opened

\* C5: a get_range(start, end) that returns gives exactly the end - start
\* bytes start..end-1 of the object, whatever the stream held from the calls
\* before it.
C5_RangeExact ==
  (dl_nreads > 0 /\ ~dl_ret.raised) =>
     /\ Len(dl_ret.bytes) = dl_ret.end - dl_ret.start
     /\ \A i \in 1..Len(dl_ret.bytes) :
           dl_ret.bytes[i] = ObjectByte(dl_opened, dl_ret.start + i)

\* a range not starting at 0 was returned when the stream still held the
\* bytes of an earlier call
C5_Witness ==
  /\ dl_nreads > 1
  /\ ~dl_ret.raised
  /\ dl_ret.before # <<>>
  /\ dl_ret.start > 0

\* C17 as stated: a get_range whose transfer failed with a transient error
\* raises it to the caller only after the retries of the retry wrapper.
C17_RangeFetchRetried ==
  (/\ dl_nreads > 0
   /\ dl_range_attempts = 0
   /\ dl_ret.raised
   /\ retry_on_server_errors_and_timeout_filter(dl_ret.error))
    => dl_ret.retries = MaxRetries

\* C17, amended: only the metadata fetch of __init__ goes through the retry
\* wrapper (a transient failure of it is raised only after MaxRetries
\* retries); get_range is never retried by the wrapper: it makes one GetRange
\* call and raises what that call raises, transient or not.
C17_OnlyMetadataRetried ==
  /\ (/\ dl_pc = "failed"
      /\ retry_on_server_errors_and_timeout_filter(dl_meta_last))
       => (dl_attempts = MaxRetries /\ dl_error = dl_meta_last)
  /\ dl_range_attempts = 0
  /\ (dl_nreads > 0 /\ dl_ret.raised) =>
       (dl_ret.error \in GetRangeErrors /\ dl_ret.retries = 0)

\* the metadata fetch was retried at open, and a later get_range raised the
\* transient error of its transfer
C17_Witness ==
  /\ dl_pc = "open"
  /\ dl_attempts > 0
  /\ dl_nreads > 0
  /\ dl_ret.raised
  /\ dl_ret.error = "HttpError503"

\* C19: a 404 answer to the metadata fetch ends __init__ with IOError(ENOENT),
\* a transient answer is retried and raised as it came once the retries are
\* used up, any other error is raised as it came at once; an __init__ that
\* raised has made no download and no get_range was served.
C19_OpenNotFound ==
  /\ dl_meta_last = "HttpError404" =>
       (dl_pc = "failed" /\ dl_error = "IOError_ENOENT")
  /\ dl_meta_last = "HttpError403" =>
       (dl_pc = "failed" /\ dl_error = "HttpError403")
  /\ retry_on_server_errors_and_timeout_filter(dl_meta_last) =>
       \/ (dl_pc = "metadata" /\ dl_attempts >= 1)
       \/ (/\ dl_pc = "failed"
           /\ dl_attempts = MaxRetries
           /\ dl_error = dl_meta_last)
  /\ dl_pc = "failed" =>
       /\ dl_url_generation = 0
       /\ dl_nreads = 0
       /\ dl_reads = {}

\* the first metadata fetch failed transiently and its retry was answered 404
C19_Witness ==
  /\ dl_pc = "failed"
  /\ dl_attempts > 0
  /\ dl_meta_last = "HttpError404"
  /\ dl_error = "IOError_ENOENT"

(***************************************************************************)
(* delete and copy                                                          *)
(***************************************************************************)

\* C10: a not-found answer to delete ends the call with success, on the first
\* attempt as on a retry, and is never followed by another attempt.
C10_DeleteNotFoundIsSuccess ==
  \A i \in 1..Len(del_log) :
    del_log[i] = "HttpError404" =>
      /\ i = Len(del_log)
      /\ del_pc = "returned"
      /\ del_error = None

\* the object was there, the answer to the first attempt was lost, and the
\* retry was answered not-found
C10_Witness ==
  /\ del_initial
  /\ del_pc = "returned"
  /\ Len(del_log) = 2
  /\ del_log[1] = "Timeout"
  /\ del_log[2] = "HttpError404"

\* C3: the first request of copy carries no token, a request after a progress
\* answer carries the token of that answer, no request follows a done answer,
\* and the answers (T1), (T2), (done) make exactly the requests none, T1, T2.
C3_CopyPollsWithToken ==
  /\ Len(copy_requests) = Len(copy_responses)
  /\ Len(copy_requests) >= 1 => copy_requests[1] = None
  /\ \A k \in 2..Len(copy_requests) :
       copy_responses[k - 1].error = None =>
         /\ ~copy_responses[k - 1].done
         /\ copy_requests[k] = copy_responses[k - 1].token
  /\ copy_pc = "returned" => copy_responses[Len(copy_responses)].done
  /\ (/\ Len(copy_responses) >= 3
      /\ SubSeq(copy_responses, 1, 3) =
           << [error |-> None, done |-> FALSE, token |-> "T1"],
              [error |-> None, done |-> FALSE, token |-> "T2"],
              [error |-> None, done |-> TRUE, token |-> None] >>)
       => (copy_pc = "returned" /\ copy_requests = <<None, "T1", "T2">>)

C3_Witness ==
  /\ copy_pc = "returned"
  /\ copy_responses =
       << [error |-> None, done |-> FALSE, token |-> "T1"],
          [error |-> None, done |-> FALSE, token |-> "T2"],
          [error |-> None, done |-> TRUE, token |-> None] >>

\* C9 as stated: a 404 answer to copy is raised as the labelled "source not
\* found" error.
C9_CopyLabelsNotFound ==
  (/\ copy_pc = "raised"
   /\ copy_responses[Len(copy_responses)].error = "HttpError404")
    => copy_error = "GcsIOError_ENOENT"

\* C9, amended: a 404 answer to copy is not retried and is raised as the
\* HttpError it came as; only copy_batch records the labelled error for a
\* sub-request answered 404.
C9_OnlyCopyBatchLabels ==
  /\ \A k \in 1..Len(copy_responses) :
       copy_responses[k].error = "HttpError404" =>
         /\ k = Len(copy_responses)
         /\ copy_pc = "raised"
         /\ copy_error = "HttpError404"
  /\ \A p \in DOMAIN cb_status :
       cb_last[p] = "HttpError404" => cb_status[p] = "GcsIOError_ENOENT"

\* copy was answered 404 after a progress answer and has raised
C9_Witness ==
  /\ copy_pc = "raised"
  /\ Len(copy_responses) = 2
  /\ copy_responses[1].token = "T1"
  /\ copy_responses[2].error = "HttpError404"

\* the answers so far that were transient errors
C18_TransientDeletes ==
  {i \in 1..Len(del_log) :
     retry_on_server_errors_and_timeout_filter(del_log[i])}

C18_TransientRewrites ==
  {k \in 1..Len(copy_responses) :
     retry_on_server_errors_and_timeout_filter(copy_responses[k].error)}

\* C18: in delete and in copy a permanent error (403) is the answer to the
\* last attempt made and is raised as it came; a transient error is raised
\* only as the answer that follows MaxRetries retried ones; and the call
\* ends, returning or raising.
C18_PermanentOnceTransientRetried ==
  /\ [](\A i \in 1..Len(del_log) :
          del_log[i] = "HttpError403" =>
            /\ i = Len(del_log)
            /\ del_pc = "raised"
            /\ del_error = "HttpError403")
  /\ []((del_pc = "raised" /\ del_error # "HttpError403") =>
          /\ del_error = del_log[Len(del_log)]
          /\ retry_on_server_errors_and_timeout_filter(del_error)
          /\ del_attempts = MaxRetries
          /\ Cardinality(C18_TransientDeletes) = MaxRetries + 1)
  /\ [](del_pc = "calling" => Cardinality(C18_TransientDeletes) = del_attempts)
  /\ [](\A k \in 1..Len(copy_responses) :
          copy_responses[k].error = "HttpError403" =>
            /\ k = Len(copy_responses)
            /\ copy_pc = "raised"
            /\ copy_error = "HttpError403")
  /\ []((copy_pc = "raised"
          /\ retry_on_server_errors_and_timeout_filter(copy_error)) =>
          /\ copy_error = copy_responses[Len(copy_responses)].error
          /\ copy_attempts = MaxRetries
          /\ Cardinality(C18_TransientRewrites) = MaxRetries + 1)
  /\ [](copy_pc = "calling" =>
          Cardinality(C18_TransientRewrites) = copy_attempts)
  /\ <>(del_pc \in {"off", "returned", "raised"})
  /\ <>(copy_pc \in {"off", "returned", "raised"})

\* copy made progress, failed transiently MaxRetries + 1 times and raised
C18_Witness ==
  /\ copy_pc = "raised"
  /\ retry_on_server_errors_and_timeout_filter(copy_error)
  /\ copy_attempts = MaxRetries
  /\ \E k \in 1..Len(copy_responses) : copy_responses[k].token # None

\* C20 as stated: the call of copy that follows a transient failure is the
\* failed call again, with the token that call carried.
C20_RetryKeepsToken ==
  \A k \in 2..Len(copy_requests) :
    retry_on_server_errors_and_timeout_filter(copy_responses[k - 1].error)
      => copy_requests[k] = copy_requests[k - 1]

\* C20, amended: the retry wrapper is around copy as a whole: the call that
\* follows a transient failure carries no token, whatever token the failed
\* call carried (the copy starts again from its first request).
C20_RetryRestartsCopy ==
  \A k \in 2..Len(copy_requests) :
    retry_on_server_errors_and_timeout_filter(copy_responses[k - 1].error)
      => copy_requests[k] = None

\* a call that carried a token failed transiently and copy called again
C20_Witness ==
  \E k \in 2..Len(copy_requests) :
    /\ retry_on_server_errors_and_timeout_filter(copy_responses[k - 1].error)
    /\ copy_requests[k - 1] # None

\* C26 as stated: rename sends a delete only once copy has returned; when copy
\* raised no delete is sent and the source is there; when copy returned and
\* delete raised, source and destination are both there; when both returned
\* the destination is there and the source is not.
C26_RenameDeleteAfterCopy ==
  /\ del_log # <<>> => copy_pc = "returned"
  /\ copy_pc = "raised" => (del_pc = "waiting" /\ del_log = <<>> /\ del_exists)
  /\ (copy_pc = "returned" /\ del_pc = "raised") =>
       (dest_present /\ del_exists)
  /\ del_pc = "returned" => (dest_present /\ ~del_exists)

\* C26, amended: as stated, but when copy returned and delete raised the
\* source is there unless a delete request that timed out had been carried
\* out by the remote.
C26_RenameSourceMayBeGone ==
  /\ del_log # <<>> => copy_pc = "returned"
  /\ copy_pc = "raised" => (del_pc = "waiting" /\ del_log = <<>> /\ del_exists)
  /\ (copy_pc = "returned" /\ del_pc = "raised") =>
       /\ dest_present
       /\ del_exists \/ \E i \in 1..Len(del_log) : del_log[i] = "Timeout"
  /\ del_pc = "returned" => (dest_present /\ ~del_exists)

\* copy took two calls and returned, delete was refused: both objects exist
C26_Witness ==
  /\ copy_pc = "returned"
  /\ Len(copy_responses) > 1
  /\ del_pc = "raised"
  /\ del_error = "HttpError403"
  /\ dest_present
  /\ del_exists

(***************************************************************************)
(* delete_batch and copy_batch                                              *)
(***************************************************************************)

\* C7: delete_batch returns one entry per path, the i-th for the i-th path,
\* after ceil(N / MAX_BATCH_OPERATION_SIZE) batched requests of at most
\* MAX_BATCH_OPERATION_SIZE paths each.
C7_DeleteBatchOnePerPath ==
  /\ Len(db_batch.paths) <= MAX_BATCH_OPERATION_SIZE
  /\ db_pc = "loop" => Len(db_results) = db_pos
  /\ db_pc = "returned" =>
       /\ Len(db_results) = Len(db_paths)
       /\ \A i \in 1..Len(db_paths) : db_results[i].path = db_paths[i]
       /\ db_nbatches = (Len(db_paths) + MAX_BATCH_OPERATION_SIZE - 1)
                          \div MAX_BATCH_OPERATION_SIZE

\* more than MAX_BATCH_OPERATION_SIZE paths were deleted, in two requests
C7_Witness ==
  /\ db_pc = "returned"
  /\ Len(db_paths) > MAX_BATCH_OPERATION_SIZE
  /\ db_nbatches = 2

\* the outcome copy_batch is to report for a pair, from the last answer given
\* for that pair alone
C2_Outcome(answer) ==
  IF answer = "done" THEN None
  ELSE IF answer = "HttpError404" THEN "GcsIOError_ENOENT"
  ELSE answer

C2_NotFoundAt == {i \in DOMAIN cb_pairs : cb_last[cb_pairs[i]] = "HttpError404"}

C2_DoneAt == {i \in DOMAIN cb_pairs : cb_last[cb_pairs[i]] = "done"}

\* C2: in the list copy_batch returns, the outcome of every pair is that of its
\* own answers only; when exactly one pair of the list was answered 404 and
\* the others done, N - 1 entries carry no error and one the "source not
\* found" error.
C2_OneMissingSource ==
  cb_pc = "returned" =>
    /\ \A i \in DOMAIN cb_pairs :
         cb_result[i].exception = C2_Outcome(cb_last[cb_pairs[i]])
    /\ (Cardinality(C2_NotFoundAt) = 1
        /\ Cardinality(C2_DoneAt) = Len(cb_pairs) - 1)
         => /\ Cardinality({i \in DOMAIN cb_result :
                              cb_result[i].exception = None})
                 = Len(cb_pairs) - 1
            /\ Cardinality({i \in DOMAIN cb_result :
                              cb_result[i].exception = "GcsIOError_ENOENT"})
                 = 1

\* more than MAX_BATCH_OPERATION_SIZE pairs, one of them answered 404 in the
\* second round, the others done
C2_Witness ==
  /\ cb_pc = "returned"
  /\ Len(cb_pairs) > MAX_BATCH_OPERATION_SIZE
  /\ Cardinality(C2_NotFoundAt) = 1
  /\ Cardinality(C2_DoneAt) = Len(cb_pairs) - 1
  /\ \E i \in C2_NotFoundAt : cb_tokens[cb_pairs[i]] # NoToken

\* C6: copy_batch returns one entry per element of its argument, in order,
\* each with the status recorded for its pair.
C6_CopyBatchOnePerInput ==
  cb_pc = "returned" =>
    /\ Len(cb_result) = Len(cb_pairs)
    /\ \A i \in 1..Len(cb_pairs) :
         /\ cb_result[i].pair = cb_pairs[i]
         /\ cb_pairs[i] \in DOMAIN cb_status
         /\ cb_result[i].exception = cb_status[cb_pairs[i]]

\* a list that names a pair twice, one pair done in the first round and
\* another only in the second
C6_Witness ==
  /\ cb_pc = "returned"
  /\ \E i, j \in DOMAIN cb_pairs : i < j /\ cb_pairs[i] = cb_pairs[j]
  /\ \E p, q \in Range(cb_pairs) :
       cb_tokens[p] = NoToken /\ cb_tokens[q] # NoToken

\* C8 as stated: no batched request of copy_batch holds more than
\* MAX_BATCH_OPERATION_SIZE sub-requests.
C8_BatchAtMost100 ==
  Cardinality(DOMAIN cb_batch.request) <= MAX_BATCH_OPERATION_SIZE

\* C8, amended: a batched request of copy_batch holds one sub-request for each
\* distinct pair without a status and is not split; it holds at most
\* MAX_BATCH_OPERATION_SIZE of them when the argument names at most that many
\* distinct pairs.
C8_BatchIsPendingPairs ==
  cb_round > 0 =>
    /\ DOMAIN cb_batch.request = Range(cb_pairs) \ cb_batch.settled
    /\ Cardinality(Range(cb_pairs)) <= MAX_BATCH_OPERATION_SIZE
         => Cardinality(DOMAIN cb_batch.request) <= MAX_BATCH_OPERATION_SIZE

\* a list of more than MAX_BATCH_OPERATION_SIZE entries naming
\* MAX_BATCH_OPERATION_SIZE distinct pairs, sent as one request
C8_Witness ==
  /\ cb_round > 0
  /\ Len(cb_pairs) > MAX_BATCH_OPERATION_SIZE
  /\ Cardinality(DOMAIN cb_batch.request) = MAX_BATCH_OPERATION_SIZE

\* the outcome delete_batch is to report for a path, from the answer to its
\* own sub-request
C11_Outcome(answer) ==
  IF answer \in {"ok", "HttpError404"} THEN None ELSE answer

\* C11: after every batched request of delete_batch that returned, the entries
\* appended for its paths are, path by path, the outcome of the path's own
\* answer (None for success and for 404, else the error); the entries of
\* earlier requests stay as they were, and delete_batch returns only when
\* every path has been sent, whatever errors the answers carried.
C11_DeleteBatchOwnAnswer ==
  /\ [](((db_pc \in {"loop", "returned"}) /\ db_nbatches > 0) =>
          LET n == Len(db_batch.paths)
          IN /\ Len(db_results) = db_pos
             /\ \A i \in 1..n :
                  db_results[db_pos - n + i] =
                    [path |-> db_batch.paths[i],
                     exception |-> C11_Outcome(db_batch.answers[i])])
  /\ [](db_pc = "returned" => db_pos = Len(db_paths))
  /\ [][SubSeq(db_results', 1, Len(db_results)) = db_results]_vars

\* more than MAX_BATCH_OPERATION_SIZE paths: the first was answered with an
\* error and the second with success in the first request, and the second
\* request was sent and answered 404
C11_Witness ==
  /\ db_pc = "returned"
  /\ db_nbatches = 2
  /\ db_results[1].exception = "HttpError403"
  /\ db_results[2].exception = None
  /\ db_batch.answers[1] = "HttpError404"
  /\ db_results[Len(db_results)].exception = None

\* C12 as stated: delete_batch and copy_batch never raise, whatever the remote
\* does, a failure of a whole batched call included.
C12_BatchNeverRaises ==
  /\ db_pc # "raised"
  /\ cb_pc # "raised"

\* C12, amended: an error answer to a sub-request never makes delete_batch or
\* copy_batch raise: when every batched call returns, the list returned has
\* one entry per element of the argument, in order, with None exactly for
\* the elements whose sub-request succeeded (or, in delete_batch, was
\* answered 404); the call raises only when a batched call as a whole raised,
\* none of its sub-requests having been answered, and then returns no list.
C12_BatchRaisesOnlyWholeCall ==
  /\ db_pc = "returned" =>
       /\ Len(db_results) = Len(db_paths)
       /\ \A i \in 1..Len(db_paths) : db_results[i].path = db_paths[i]
       /\ \A i \in 1..Len(db_batch.paths) :
            (db_results[db_pos - Len(db_batch.paths) + i].exception = None)
              <=> (db_batch.answers[i] \in {"ok", "HttpError404"})
  /\ cb_pc = "returned" =>
       /\ Len(cb_result) = Len(cb_pairs)
       /\ \A i \in 1..Len(cb_pairs) :
            /\ cb_result[i].pair = cb_pairs[i]
            /\ (cb_result[i].exception = None) <=> (cb_last[cb_pairs[i]] = "done")
  /\ db_pc = "raised" => Len(db_results) < db_pos
  /\ cb_pc = "raised" =>
       /\ cb_result = <<>>
       /\ DOMAIN cb_batch.request \cap DOMAIN cb_status = {}

\* the first batched request of delete_batch was answered with an error for
\* one of its paths, and the second batched request raised as a whole
C12_Witness ==
  /\ db_pc = "raised"
  /\ db_nbatches = 2
  /\ \E i \in 1..Len(db_results) : db_results[i].exception = "HttpError403"

\* C21: the sub-request sent for a pair carries no token in the first batched
\* request, and in a later one the token the remote returned for that same
\* pair in the request before; no two pairs of a request carry the same
\* token.
C21_TokenOfSamePair ==
  cb_round > 0 =>
    /\ \A p \in DOMAIN cb_batch.request :
         cb_batch.request[p] =
           IF cb_round = 1 THEN NoToken ELSE RewriteToken(p, cb_round - 1)
    /\ cb_round > 1 =>
         \A p, q \in DOMAIN cb_batch.request :
           p # q => cb_batch.request[p] # cb_batch.request[q]

\* a second batched request that polls more than one pair, each with its own
\* token, after another pair was settled in the first
C21_Witness ==
  /\ cb_round = 2
  /\ Cardinality(DOMAIN cb_batch.request) > 1
  /\ cb_batch.settled # {}

\* C22: a pair that has a status keeps it and is in no later batched request;
\* the pairs with a status only grow, and every batched request holds exactly
\* the distinct pairs of the argument that have no status when it is built.
C22_SettledPairsStay ==
  /\ [][\A p \in DOMAIN cb_status :
          p \in DOMAIN cb_status' /\ cb_status'[p] = cb_status[p]]_vars
  /\ [][cb_round' # cb_round =>
          DOMAIN cb_batch'.request = Range(cb_pairs) \ DOMAIN cb_status]_vars
  /\ [](cb_round > 0 =>
          /\ cb_batch.settled \subseteq DOMAIN cb_status
          /\ DOMAIN cb_batch.request \cap cb_batch.settled = {})

\* a pair failed in the first batched request, the second was sent without
\* it, and copy_batch returned with the status the pair was given first
C22_Witness ==
  /\ cb_pc = "returned"
  /\ cb_round = 2
  /\ DOMAIN cb_batch.request # {}
  /\ \E p \in cb_batch.settled : cb_status[p] = "HttpError403"

\* C23: copy_batch returns only when every pair of its argument has a status,
\* a pair answered done or error being given one at once; with an empty
\* argument it returns [] without a batched request; and it ends (returning,
\* unless a batched request raised as a whole) once the remote has stopped
\* answering "not done".
C23_ReturnsWhenNonePending ==
  /\ [](cb_pc = "returned" =>
          /\ Range(cb_pairs) \subseteq DOMAIN cb_status
          /\ Len(cb_result) = Len(cb_pairs))
  /\ [](cb_pc = "loop" =>
          \A p \in DOMAIN cb_last :
            cb_last[p] # "progress" => p \in DOMAIN cb_status)
  /\ []((cb_pairs = <<>> /\ cb_pc # "call") =>
          (cb_pc = "returned" /\ cb_result = <<>> /\ cb_round = 0))
  /\ <>(cb_pc \in {"returned", "raised"})

\* more than MAX_BATCH_OPERATION_SIZE pairs, returned after a second batched
\* request
C23_Witness ==
  /\ cb_pc = "returned"
  /\ cb_round = 2
  /\ Len(cb_pairs) > MAX_BATCH_OPERATION_SIZE

====
